---- MODULE Spec2Model ----
(***************************************************************************)
(* Model of json-ez (src/lib.rs): the Json document, a wrapper around a    *)
(* HashMap<String, serde_json::Value>, its add / get operations, the       *)
(* NotFound error, and the inline!, serialise! and deserialise! macros.    *)
(*                                                                         *)
(* A Rust String is a sequence of one-character strings.  A serde_json     *)
(* Value and a statically typed Rust value are records of one shape, so    *)
(* that any two of them can be compared.                                   *)
(***************************************************************************)
EXTENDS Integers, Sequences, FiniteSets, TLC

\* Number of (key, value) pairs of one inline! invocation.
MaxPairs == 2

\* Number of add calls made on a document returned by get::<Json>.
MaxChildAdds == 1

EmptyMap == [k \in {} |-> 0]

(***************************************************************************)
(* serde_json::Value: Null, Bool, Number, String, Array, Object.           *)
(***************************************************************************)
Blank == [b |-> FALSE, n |-> 0, s |-> <<>>, a |-> <<>>, o |-> EmptyMap]

VNull == [tag |-> "Null"] @@ Blank
VBool(b) == [tag |-> "Bool", b |-> b] @@ Blank
VNumber(n) == [tag |-> "Number", n |-> n] @@ Blank
VString(s) == [tag |-> "String", s |-> s] @@ Blank
VArray(a) == [tag |-> "Array", a |-> a] @@ Blank
VObject(o) == [tag |-> "Object", o |-> o] @@ Blank

(***************************************************************************)
(* Statically typed Rust values handed to add and returned by get.         *)
(***************************************************************************)
IntTypes == {"u8", "u16", "i16"}
VecTypes == {"Vec<u16>"}
Types == {"()", "bool", "String", "Json"} \cup IntTypes \cup VecTypes

ElemType(T) == IF T = "Vec<u16>" THEN "u16" ELSE "()"

IntMin(T) == IF T = "i16" THEN -32768 ELSE 0
IntMax(T) == CASE T = "u8" -> 255
               [] T = "u16" -> 65535
               [] OTHER -> 32767

SUnit == [ty |-> "()"] @@ Blank
SBool(b) == [ty |-> "bool", b |-> b] @@ Blank
SInt(T, n) == [ty |-> T, n |-> n] @@ Blank
SStr(s) == [ty |-> "String", s |-> s] @@ Blank
SVec(T, a) == [ty |-> T, a |-> a] @@ Blank
SJson(o) == [ty |-> "Json", o |-> o] @@ Blank

\* to_value that stores a bool as the number 0 or 1.
RECURSIVE to_value_bool_as_number(_)
to_value_bool_as_number(v) ==
    CASE v.ty = "()" -> VNull
      [] v.ty = "bool" -> VNumber(IF v.b THEN 1 ELSE 0)
      [] v.ty \in IntTypes -> VNumber(v.n)
      [] v.ty = "String" -> VString(v.s)
      [] v.ty \in VecTypes ->
           VArray([i \in DOMAIN v.a |-> to_value_bool_as_number(v.a[i])])
      [] OTHER -> VObject(v.o)

(***************************************************************************)
(* json!(v), that is serde_json::to_value(&v).unwrap(), of add.            *)
(***************************************************************************)
RECURSIVE to_value(_)
to_value(v) ==
    CASE v.ty = "()" -> VNull
      [] v.ty = "bool" -> VBool(v.b)
      [] v.ty \in IntTypes -> VNumber(v.n)
      [] v.ty = "String" -> VString(v.s)
      [] v.ty \in VecTypes -> VArray([i \in DOMAIN v.a |-> to_value(v.a[i])])
      [] OTHER -> VObject(v.o)

ConvErr == [ok |-> FALSE, v |-> SUnit]
ConvOk(v) == [ok |-> TRUE, v |-> v]

\* from_value for a Json without #[serde(flatten)]: an object fits Json only
\* through a field json_data, which no object of the model has.
RECURSIVE from_value_unflattened(_, _)
from_value_unflattened(T, value) ==
    CASE T = "()" ->
           IF value.tag = "Null" THEN ConvOk(SUnit) ELSE ConvErr
      [] T = "bool" ->
           IF value.tag = "Bool" THEN ConvOk(SBool(value.b)) ELSE ConvErr
      [] T \in IntTypes ->
           IF /\ value.tag = "Number"
              /\ value.n >= IntMin(T)
              /\ value.n <= IntMax(T)
           THEN ConvOk(SInt(T, value.n)) ELSE ConvErr
      [] T = "String" ->
           IF value.tag = "String" THEN ConvOk(SStr(value.s)) ELSE ConvErr
      [] T \in VecTypes ->
           IF /\ value.tag = "Array"
              /\ \A i \in DOMAIN value.a :
                   from_value_unflattened(ElemType(T), value.a[i]).ok
           THEN ConvOk(SVec(T, [i \in DOMAIN value.a |->
                                  from_value_unflattened(ElemType(T), value.a[i]).v]))
           ELSE ConvErr
      [] OTHER -> ConvErr

(***************************************************************************)
(* serde_json::from_value::<T>(value) of get: an Ok with the rebuilt value *)
(* or an Err when the shape of the value does not fit T.                   *)
(***************************************************************************)
RECURSIVE from_value(_, _)
from_value(T, value) ==
    CASE T = "()" ->
           IF value.tag = "Null" THEN ConvOk(SUnit) ELSE ConvErr
      [] T = "bool" ->
           IF value.tag = "Bool" THEN ConvOk(SBool(value.b)) ELSE ConvErr
      [] T \in IntTypes ->
           IF /\ value.tag = "Number"
              /\ value.n >= IntMin(T)
              /\ value.n <= IntMax(T)
           THEN ConvOk(SInt(T, value.n)) ELSE ConvErr
      [] T = "String" ->
           IF value.tag = "String" THEN ConvOk(SStr(value.s)) ELSE ConvErr
      [] T \in VecTypes ->
           IF /\ value.tag = "Array"
              /\ \A i \in DOMAIN value.a : from_value(ElemType(T), value.a[i]).ok
           THEN ConvOk(SVec(T, [i \in DOMAIN value.a |->
                                  from_value(ElemType(T), value.a[i]).v]))
           ELSE ConvErr
      [] OTHER ->
           IF value.tag = "Object" THEN ConvOk(SJson(value.o)) ELSE ConvErr

(***************************************************************************)
(* HashMap::insert and Json::new / Json::add.                              *)
(***************************************************************************)
insert(map, k, value) ==
    [x \in (DOMAIN map) \cup {k} |-> IF x = k THEN value ELSE map[x]]

new == EmptyMap

\* add through entry(k).or_insert(..): a key the map holds keeps its value.
add_or_insert(map, k, v) ==
    IF k \in DOMAIN map THEN map ELSE insert(map, k, to_value(v))

\* add into a map emptied first.
add_cleared(map, k, v) == insert(new, k, to_value(v))

add(map, k, v) == insert(map, k, to_value(v))

(***************************************************************************)
(* serde_json::to_string: the JSON text, a sequence of characters.         *)
(***************************************************************************)
Digit == <<"0", "1", "2", "3", "4", "5", "6", "7", "8", "9">>

\* The characters of the model in code point order.
Alphabet == <<" ", "\"", ",", "-", "/", "0", "1", "2", "3", "4", "5", "6", "7",
              "8", "9", ":", "[", "\\", "]", "a", "b", "e", "f", "l", "m",
              "n", "r", "s", "t", "u", "x", "y", "{", "}">>

CodePoint(c) == CHOOSE i \in DOMAIN Alphabet : Alphabet[i] = c

\* Ord for String: lexicographic on code points.
RECURSIVE StrLess(_, _)
StrLess(s, t) ==
    IF t = <<>> THEN FALSE
    ELSE IF s = <<>> THEN TRUE
    ELSE IF Head(s) = Head(t) THEN StrLess(Tail(s), Tail(t))
    ELSE CodePoint(Head(s)) < CodePoint(Head(t))

\* The iteration order of serde_json::Map (a BTreeMap<String, Value>).
RECURSIVE BTreeOrder(_)
BTreeOrder(S) ==
    IF S = {} THEN <<>>
    ELSE LET m == CHOOSE x \in S : \A y \in S : ~StrLess(y, x)
         IN <<m>> \o BTreeOrder(S \ {m})

\* The iteration orders a HashMap with key set S may have.
Orders(S) ==
    {q \in [1..Cardinality(S) -> S] : \A i, j \in DOMAIN q : q[i] = q[j] => i = j}

RECURSIVE itoa(_)
itoa(n) ==
    IF n < 0 THEN <<"-">> \o itoa(-n)
    ELSE IF n < 10 THEN <<Digit[n + 1]>>
    ELSE itoa(n \div 10) \o <<Digit[(n % 10) + 1]>>

\* The contents of a string written without escapes.
format_unescaped(s) == s

RECURSIVE format_escaped_str_contents(_)
format_escaped_str_contents(s) ==
    IF s = <<>> THEN <<>>
    ELSE (IF Head(s) \in {"\"", "\\"} THEN <<"\\", Head(s)>> ELSE <<Head(s)>>)
         \o format_escaped_str_contents(Tail(s))

format_escaped_str(s) == <<"\"">> \o format_escaped_str_contents(s) \o <<"\"">>

RECURSIVE value_to_string(_)
RECURSIVE seq_to_string(_, _)
RECURSIVE map_to_string(_, _, _)

seq_to_string(a, i) ==
    IF i > Len(a) THEN <<>>
    ELSE (IF i > 1 THEN <<",">> ELSE <<>>)
         \o value_to_string(a[i]) \o seq_to_string(a, i + 1)

\* The entries of map in the order of the key sequence order, from the i-th.
map_to_string(map, order, i) ==
    IF i > Len(order) THEN <<>>
    ELSE (IF i > 1 THEN <<",">> ELSE <<>>)
         \o format_escaped_str(order[i]) \o <<":">>
         \o value_to_string(map[order[i]])
         \o map_to_string(map, order, i + 1)

value_to_string(value) ==
    CASE value.tag = "Null" -> <<"n", "u", "l", "l">>
      [] value.tag = "Bool" ->
           IF value.b THEN <<"t", "r", "u", "e">> ELSE <<"f", "a", "l", "s", "e">>
      [] value.tag = "Number" -> itoa(value.n)
      [] value.tag = "String" -> format_escaped_str(value.s)
      [] value.tag = "Array" -> <<"[">> \o seq_to_string(value.a, 1) \o <<"]">>
      [] OTHER ->
           <<"{">> \o map_to_string(value.o, BTreeOrder(DOMAIN value.o), 1) \o <<"}">>

\* serialise!(json): the flattened json_data, its entries in the HashMap's
\* iteration order.
serialise(map, order) == <<"{">> \o map_to_string(map, order, 1) \o <<"}">>

(***************************************************************************)
(* serde_json::from_str: the parser.  A parse result is the value read and *)
(* the position after it, or an error.  Numbers are integers; fractions,   *)
(* exponents and the escapes of control characters are errors here, the    *)
(* texts of the model have none.                                           *)
(***************************************************************************)
ParseErr == [ok |-> FALSE, v |-> VNull, i |-> 0]
ParseOk(v, i) == [ok |-> TRUE, v |-> v, i |-> i]

At(t, i) == IF i \in DOMAIN t THEN t[i] ELSE "EOF"

RECURSIVE parse_whitespace(_, _)
parse_whitespace(t, i) ==
    IF At(t, i) = " " THEN parse_whitespace(t, i + 1) ELSE i

\* The identifier word expected from position i on.
parse_ident(t, i, word, v) ==
    IF \A j \in DOMAIN word : At(t, i + j - 1) = word[j]
    THEN ParseOk(v, i + Len(word)) ELSE ParseErr

\* The string whose opening quote has been read; i is the next position.
RECURSIVE parse_str(_, _, _)
parse_str(t, i, acc) ==
    CASE At(t, i) = "EOF" -> ParseErr
      [] At(t, i) = "\"" -> ParseOk(VString(acc), i + 1)
      [] At(t, i) = "\\" ->
           IF At(t, i + 1) \in {"\"", "\\", "/"}
           THEN parse_str(t, i + 2, Append(acc, At(t, i + 1)))
           ELSE ParseErr
      [] OTHER -> parse_str(t, i + 1, Append(acc, At(t, i)))

IsDigit(c) == \E d \in DOMAIN Digit : Digit[d] = c
DigitValue(c) == (CHOOSE d \in DOMAIN Digit : Digit[d] = c) - 1

RECURSIVE parse_digits(_, _, _)
parse_digits(t, i, acc) ==
    IF IsDigit(At(t, i))
    THEN parse_digits(t, i + 1, acc * 10 + DigitValue(At(t, i)))
    ELSE IF At(t, i) \in {".", "e", "E"} THEN ParseErr
    ELSE ParseOk(VNumber(acc), i)

\* An integer from its first digit; a leading 0 stands alone.
parse_integer(t, i) ==
    IF ~IsDigit(At(t, i)) THEN ParseErr
    ELSE IF At(t, i) = "0"
         THEN IF IsDigit(At(t, i + 1)) \/ At(t, i + 1) \in {".", "e", "E"}
              THEN ParseErr ELSE ParseOk(VNumber(0), i + 1)
         ELSE parse_digits(t, i, 0)

parse_number(t, i) ==
    IF At(t, i) = "-"
    THEN LET r == parse_integer(t, i + 1)
         IN IF r.ok THEN ParseOk(VNumber(-r.v.n), r.i) ELSE ParseErr
    ELSE parse_integer(t, i)

RECURSIVE parse_value(_, _)
RECURSIVE parse_seq(_, _, _)
RECURSIVE parse_map(_, _, _)

\* The elements of an array after its "[" (acc empty) or after an element.
parse_seq(t, i, acc) ==
    LET p == parse_whitespace(t, i)
        elem(q) == LET r == parse_value(t, q)
                   IN IF r.ok THEN parse_seq(t, r.i, Append(acc, r.v)) ELSE ParseErr
    IN CASE At(t, p) = "]" -> ParseOk(VArray(acc), p + 1)
         [] At(t, p) = "," /\ acc # <<>> -> elem(p + 1)
         [] At(t, p) # "," /\ acc = <<>> -> elem(p)
         [] OTHER -> ParseErr

\* The entries of an object after its "{" (acc empty) or after an entry; a
\* repeated key keeps its last value.
parse_map(t, i, acc) ==
    LET p == parse_whitespace(t, i)
        entry(q) ==
            IF At(t, q) # "\"" THEN ParseErr
            ELSE LET k == parse_str(t, q + 1, <<>>)
                 IN IF ~k.ok THEN ParseErr
                    ELSE LET c == parse_whitespace(t, k.i)
                         IN IF At(t, c) # ":" THEN ParseErr
                            ELSE LET r == parse_value(t, c + 1)
                                 IN IF r.ok
                                    THEN parse_map(t, r.i, insert(acc, k.v.s, r.v))
                                    ELSE ParseErr
    IN CASE At(t, p) = "}" -> ParseOk(VObject(acc), p + 1)
         [] At(t, p) = "," /\ DOMAIN acc # {} -> entry(parse_whitespace(t, p + 1))
         [] At(t, p) # "," /\ DOMAIN acc = {} -> entry(p)
         [] OTHER -> ParseErr

parse_value(t, i) ==
    LET p == parse_whitespace(t, i)
        c == At(t, p)
    IN CASE c = "n" -> parse_ident(t, p, <<"n", "u", "l", "l">>, VNull)
         [] c = "t" -> parse_ident(t, p, <<"t", "r", "u", "e">>, VBool(TRUE))
         [] c = "f" -> parse_ident(t, p, <<"f", "a", "l", "s", "e">>, VBool(FALSE))
         [] c = "\"" -> parse_str(t, p + 1, <<>>)
         [] c = "[" -> parse_seq(t, p + 1, <<>>)
         [] c = "{" -> parse_map(t, p + 1, EmptyMap)
         [] c = "-" \/ IsDigit(c) -> parse_number(t, p)
         [] OTHER -> ParseErr

\* deserialise!(item): serde_json::from_str::<Json>; the text is one object
\* and nothing but whitespace follows it.
DeErr == [ok |-> FALSE, json_data |-> EmptyMap]

deserialise(t) ==
    LET p == parse_whitespace(t, 1)
        r == IF At(t, p) = "{" THEN parse_map(t, p + 1, EmptyMap) ELSE ParseErr
    IN IF r.ok /\ parse_whitespace(t, r.i) = Len(t) + 1
       THEN [ok |-> TRUE, json_data |-> r.v.o]
       ELSE DeErr

(***************************************************************************)
(* Json::get, NotFound and the inline! macro.                              *)
(***************************************************************************)
\* NotFound::new that renders a new document in place of the one given.
NotFound_new_empty(key, map, order) ==
    [key |-> key, json |-> serialise(new, <<>>)]

\* NotFound::new(key, json): the key and the rendering of the document.
NotFound_new(key, map, order) == [key |-> key, json |-> serialise(map, order)]

NoError == [key |-> <<>>, json |-> <<>>]

\* impl Display for NotFound.
NotFound_fmt(e) ==
    <<"NotFound: Cannot found key ">> \o e.key \o <<" in ">> \o e.json

\* The outcome of a get: Ok(value), Err(NotFound), or the panic of unwrap()
\* on the Err of from_value.
Ok(v) == [kind |-> "Ok", v |-> v, err |-> NoError]
Err(e) == [kind |-> "NotFound", v |-> SUnit, err |-> e]
Panic == [kind |-> "Panic", v |-> SUnit, err |-> NoError]
NoResult == [kind |-> "None", v |-> SUnit, err |-> NoError]

\* unwrap() of the conversion result c.
unwrap(c) == IF c.ok THEN Ok(c.v) ELSE Panic

\* get that reads a key the map does not hold as null.
get_or_null(map, k, T, order) ==
    unwrap(from_value(T, IF k \in DOMAIN map THEN map[k] ELSE VNull))

get(map, k, T, order) ==
    IF k \notin DOMAIN map
    THEN Err(NotFound_new(k, map, order))
    ELSE unwrap(from_value(T, map[k]))

\* inline! that adds the pairs from the last to the first.
RECURSIVE inline_reversed(_, _)
inline_reversed(map, ps) ==
    IF ps = <<>> THEN map
    ELSE inline_reversed(add(map, ps[Len(ps)].k, ps[Len(ps)].v),
                         SubSeq(ps, 1, Len(ps) - 1))

\* inline!(k1 => v1, ...): Json::new() and one add for each pair, in order.
RECURSIVE inline_from(_, _)
inline_from(map, ps) ==
    IF ps = <<>> THEN map
    ELSE inline_from(add(map, Head(ps).k, Head(ps).v), Tail(ps))

inline(ps) == inline_from(new, ps)

(***************************************************************************)
(* Inputs.                                                                 *)
(***************************************************************************)
Keys == {<<"a">>, <<"b">>}
LookupKeys == Keys \cup {<<"m">>}

Pair(k, v) == [k |-> k, v |-> v]

Movie == inline(<<Pair(<<"b">>, SBool(FALSE)), Pair(<<"a">>, SInt("u16", 2005))>>)

AddValues ==
    {SBool(TRUE), SInt("u8", 42), SInt("u16", 2005), SStr(<<"x">>),
     SVec("Vec<u16>", <<SInt("u16", 2005)>>), SJson(Movie)}

GetTypes == {"bool", "u8", "u16", "String", "Vec<u16>", "Json"}

ChildValues == {SBool(TRUE), SInt("u8", 42)}

ErrValues == {SInt("u8", 42), SStr(<<"x">>)}

ErrTypes == {"u8", "String"}

TextValues ==
    {SUnit, SBool(TRUE), SInt("i16", -1), SInt("u16", 2005),
     SStr(<<"x", "\"", "\\">>), SVec("Vec<u16>", <<>>),
     SVec("Vec<u16>", <<SInt("u16", 0), SInt("u16", 42)>>),
     SJson(new), SJson(Movie)}

PairSeqs(V) == UNION {[1..n -> [k : Keys, v : V]] : n \in 1..MaxPairs}

\* Texts handed to deserialise! besides the ones serialise! made: no JSON at
\* all, an object with whitespace, an object that repeats a key, an array.
SampleTexts ==
    {<<"n", "o", "t", " ", "a", " ", "j", "s", "o", "n">>,
     <<"{", " ", "\"", "a", "\"", ":", " ", "t", "r", "u", "e", " ", "}">>,
     <<"{", "\"", "a", "\"", ":", "1", ",", "\"", "a", "\"", ":", "2", "}">>,
     <<"[", "1", "]">>}

(***************************************************************************)
(* State.                                                                  *)
(***************************************************************************)
VARIABLES
    json_data,  \* Json.json_data of the document d
    prev,       \* json_data before the latest operation
    last,       \* the latest operation and its arguments
    ret,        \* what the latest operation returned, when it was a get
    held,       \* the NotFound error the caller keeps
    child,      \* the document of a get::<Json> the caller keeps
    step,       \* the document built by one add for each pair of the inline!
    pos,        \* the number of pairs added to step
    text,       \* the latest serialise!(d), with the json_data it rendered
    decoded,    \* the latest deserialise!, with the text it read
    panicked    \* the thread has panicked

vars == <<json_data, prev, last, ret, held, child, step, pos, text, decoded,
          panicked>>

NoChild == [some |-> FALSE, key |-> <<>>, json_data |-> EmptyMap,
            orig |-> EmptyMap, adds |-> 0]

NoHeld == [some |-> FALSE, err |-> NoError]

\* The latest operation: its name, key, type and value arguments; for an add,
\* had tells that the key was present and old is the value it had; a get
\* that follows d.add(k, v) with v of type T is fresh and carries v, had and
\* old of that add; ps are the pairs of an inline!.
Op(op, k, ty, v, fresh, had, old, ps) ==
    [op |-> op, k |-> k, ty |-> ty, v |-> v, fresh |-> fresh, had |-> had,
     old |-> old, ps |-> ps]

OpOf(op) == Op(op, <<>>, "()", SUnit, FALSE, FALSE, VNull, <<>>)

Init ==
    /\ json_data = new
    /\ prev = new
    /\ last = OpOf("new")
    /\ ret = NoResult
    /\ held = NoHeld
    /\ child = NoChild
    /\ step = new
    /\ pos = 0
    /\ text = [s |-> <<>>, of |-> EmptyMap]
    /\ decoded = [ok |-> FALSE, json_data |-> EmptyMap, input |-> <<>>]
    /\ panicked = FALSE

\* d.add(k, v)
Add(k, v) ==
    /\ ~panicked
    /\ json_data' = add(json_data, k, v)
    /\ prev' = json_data
    /\ last' = Op("add", k, v.ty, v, FALSE, k \in DOMAIN json_data,
                  IF k \in DOMAIN json_data THEN json_data[k] ELSE VNull, <<>>)
    /\ ret' = NoResult
    /\ UNCHANGED <<held, child, step, pos, text, decoded, panicked>>

\* let d = inline!(ps), the construction of d
Inline(ps) ==
    /\ last.op = "new"
    /\ json_data' = inline(ps)
    /\ prev' = json_data
    /\ last' = [OpOf("inline") EXCEPT !.ps = ps]
    /\ ret' = NoResult
    /\ UNCHANGED <<held, child, step, pos, text, decoded, panicked>>

\* step.add(k, v) for the next pair of the inline!
AddNext ==
    /\ last.op = "inline"
    /\ pos < Len(last.ps)
    /\ step' = add(step, last.ps[pos + 1].k, last.ps[pos + 1].v)
    /\ pos' = pos + 1
    /\ UNCHANGED <<json_data, prev, last, ret, held, child, text, decoded,
                   panicked>>

\* d.get::<T>(k); the iteration order of the HashMap shows only where the
\* document is rendered, for a key it does not hold.
Get(k, T) ==
    /\ ~panicked
    /\ \E order \in IF k \in DOMAIN json_data THEN {<<>>}
                    ELSE Orders(DOMAIN json_data) :
         LET r == get(json_data, k, T, order)
             fresh == last.op = "add" /\ last.k = k /\ last.ty = T
         IN /\ ret' = r
            /\ panicked' = (r.kind = "Panic")
            /\ last' = IF fresh
                       THEN [last EXCEPT !.op = "get", !.fresh = TRUE]
                       ELSE [OpOf("get") EXCEPT !.k = k, !.ty = T]
    /\ prev' = json_data
    /\ UNCHANGED <<json_data, held, child, step, pos, text, decoded>>

\* let err = item.unwrap_err(), the caller keeps the error of the get
KeepErr ==
    /\ last.op = "get"
    /\ ret.kind = "NotFound"
    /\ ~held.some
    /\ held' = [some |-> TRUE, err |-> ret.err]
    /\ UNCHANGED <<json_data, prev, last, ret, child, step, pos, text, decoded,
                   panicked>>

\* let mut child = d.get::<Json>(k)?, the caller keeps the document of the get
KeepChild ==
    /\ last.op = "get"
    /\ ret.kind = "Ok"
    /\ ret.v.ty = "Json"
    /\ ~child.some
    /\ child' = [some |-> TRUE, key |-> last.k, json_data |-> ret.v.o,
                 orig |-> ret.v.o, adds |-> 0]
    /\ UNCHANGED <<json_data, prev, last, ret, held, step, pos, text, decoded,
                   panicked>>

\* child.add(k, v) on a child that is the entry of d itself, not a clone.
ChildAdd_aliased(k, v) ==
    /\ ~panicked
    /\ child.some
    /\ child.adds < MaxChildAdds
    /\ child' = [child EXCEPT !.json_data = add(@, k, v), !.adds = @ + 1]
    /\ json_data' = [json_data EXCEPT
                       ![child.key] = VObject(add(child.json_data, k, v))]
    /\ prev' = json_data
    /\ last' = [OpOf("child_add") EXCEPT !.k = k, !.ty = v.ty, !.v = v]
    /\ ret' = NoResult
    /\ UNCHANGED <<held, step, pos, text, decoded, panicked>>

\* child.add(k, v)
ChildAdd(k, v) ==
    /\ ~panicked
    /\ child.some
    /\ child.adds < MaxChildAdds
    /\ child' = [child EXCEPT !.json_data = add(@, k, v), !.adds = @ + 1]
    /\ prev' = json_data
    /\ last' = [OpOf("child_add") EXCEPT !.k = k, !.ty = v.ty, !.v = v]
    /\ ret' = NoResult
    /\ UNCHANGED <<json_data, held, step, pos, text, decoded, panicked>>

\* child.get::<T>(k), the second get of d.get::<Json>(..)?.get::<T>(k)
ChildGet(k, T) ==
    /\ ~panicked
    /\ child.some
    /\ \E order \in IF k \in DOMAIN child.json_data THEN {<<>>}
                    ELSE Orders(DOMAIN child.json_data) :
         LET r == get(child.json_data, k, T, order)
         IN /\ ret' = r
            /\ panicked' = (r.kind = "Panic")
    /\ prev' = json_data
    /\ last' = [OpOf("child_get") EXCEPT !.k = k, !.ty = T]
    /\ UNCHANGED <<json_data, held, child, step, pos, text, decoded>>

\* serialise!(d)
Serialise ==
    /\ ~panicked
    /\ \E order \in Orders(DOMAIN json_data) :
         text' = [s |-> serialise(json_data, order), of |-> json_data]
    /\ prev' = json_data
    /\ last' = OpOf("serialise")
    /\ ret' = NoResult
    /\ UNCHANGED <<json_data, held, child, step, pos, decoded, panicked>>

\* deserialise!(t)
Deserialise(t) ==
    /\ ~panicked
    /\ decoded' = deserialise(t) @@ [input |-> t]
    /\ prev' = json_data
    /\ last' = OpOf("deserialise")
    /\ ret' = NoResult
    /\ UNCHANGED <<json_data, held, child, step, pos, text, panicked>>

\* Documents, add and get.
Next ==
    \/ \E k \in Keys, v \in AddValues : Add(k, v)
    \/ \E ps \in PairSeqs(AddValues) : Inline(ps)
    \/ \E k \in LookupKeys, T \in GetTypes : Get(k, T)

Spec == Init /\ [][Next]_vars

\* The error of a get and the adds that follow it.
NextErr ==
    \/ \E k \in Keys, v \in ErrValues : Add(k, v)
    \/ \E ps \in PairSeqs(ErrValues) : Inline(ps)
    \/ \E k \in LookupKeys, T \in ErrTypes : Get(k, T)
    \/ KeepErr

SpecErr == Init /\ [][NextErr]_vars

\* inline! against one add for each pair.
NextInline ==
    \/ \E ps \in PairSeqs(AddValues) : Inline(ps)
    \/ AddNext

SpecInline == Init /\ [][NextInline]_vars

\* Nested documents.
NextNested ==
    \/ \E ps \in PairSeqs(AddValues) : Inline(ps)
    \/ \E k \in LookupKeys, T \in GetTypes : Get(k, T)
    \/ KeepChild
    \/ \E k \in Keys, v \in ChildValues : ChildAdd(k, v)
    \/ \E k \in LookupKeys, T \in GetTypes : ChildGet(k, T)

SpecNested == Init /\ [][NextNested]_vars

\* The JSON text.
NextText ==
    \/ \E ps \in PairSeqs(TextValues) : Inline(ps)
    \/ Serialise
    \/ \E t \in {text.s} \cup SampleTexts : Deserialise(t)

SpecText == Init /\ [][NextText]_vars

(***************************************************************************)
(* Properties.                                                             *)
(***************************************************************************)

\* The shape of value is that of type T.
RECURSIVE Fits(_, _)
Fits(T, value) ==
    CASE value.tag = "Null" -> T = "()"
      [] value.tag = "Bool" -> T = "bool"
      [] value.tag = "Number" ->
           T \in IntTypes /\ value.n >= IntMin(T) /\ value.n <= IntMax(T)
      [] value.tag = "String" -> T = "String"
      [] value.tag = "Array" ->
           T \in VecTypes /\ \A i \in DOMAIN value.a : Fits(ElemType(T), value.a[i])
      [] OTHER -> T = "Json"

\* C1: a get of a present key at a type the stored value does not fit
\* returns the error ConversionFailed to the caller and does not panic.
C1_MismatchIsConversionFailed ==
    (/\ last.op = "get"
     /\ last.k \in DOMAIN prev
     /\ ~Fits(last.ty, prev[last.k]))
    => (ret.kind = "ConversionFailed" /\ ~panicked)

\* C2: a get of a key the document does not hold fails with NotFound for
\* that key, whatever the type asked for, and a get of a key the document
\* holds never fails with NotFound.
C2_MissingKeyIsNotFound ==
    last.op = "get" =>
        IF last.k \in DOMAIN prev
        THEN ret.kind # "NotFound"
        ELSE ret.kind = "NotFound" /\ ret.err.key = last.k /\ ~panicked

C2_Witness ==
    /\ last.op = "get"
    /\ last.ty = "Json"
    /\ DOMAIN prev = {<<"a">>}
    /\ last.k = <<"b">>
    /\ ret.kind = "NotFound"

C4_Overwrite ==
    /\ (last.op = "add" /\ last.had) =>
          /\ Cardinality(DOMAIN json_data) = Cardinality(DOMAIN prev)
          /\ json_data[last.k] = to_value(last.v)
    /\ (last.op = "get" /\ last.fresh /\ last.had) =>
          /\ ret.kind = "Ok"
          /\ ret.v = last.v
          /\ to_value(last.v) # last.old => to_value(ret.v) # last.old

C4_Witness ==
    /\ last.op = "get"
    /\ last.fresh
    /\ last.had
    /\ last.old = VNumber(42)
    /\ ret = Ok(SStr(<<"x">>))
    /\ Cardinality(DOMAIN json_data) = 2

\* C5: the document deserialise! reads from the text serialise! made of a
\* document has the key set of that document and an equal value under
\* every key.
C5_RoundTrip ==
    (last.op = "deserialise" /\ text.s # <<>> /\ decoded.input = text.s) =>
        /\ decoded.ok
        /\ DOMAIN decoded.json_data = DOMAIN text.of
        /\ \A k \in DOMAIN text.of : decoded.json_data[k] = text.of[k]

C5_Witness ==
    /\ last.op = "deserialise"
    /\ decoded.input = text.s
    /\ decoded.ok
    /\ DOMAIN text.of = Keys
    /\ text.of[<<"a">>] = VString(<<"x", "\"", "\\">>)
    /\ text.of[<<"b">>] = VObject(Movie)

\* The value of the last pair of ps with key k.
LastValue(ps, k) ==
    ps[CHOOSE i \in DOMAIN ps :
         ps[i].k = k /\ \A j \in DOMAIN ps : ps[j].k = k => j <= i].v

\* C6: the document of inline!(ps) is the document that one add for each
\* pair of ps, in order, builds from Json::new(): it holds each key of ps
\* once, with the value of the last pair that has the key.
C6_InlineIsAdds ==
    (last.op = "inline" /\ pos = Len(last.ps)) =>
        /\ json_data = step
        /\ DOMAIN json_data = {last.ps[i].k : i \in DOMAIN last.ps}
        /\ \A k \in DOMAIN json_data :
             json_data[k] = to_value(LastValue(last.ps, k))

C6_Witness ==
    /\ last.op = "inline"
    /\ pos = Len(last.ps)
    /\ Len(last.ps) = 2
    /\ last.ps[1].k = last.ps[2].k
    /\ last.ps[1].v # last.ps[2].v
    /\ json_data = step

\* C7: the NotFound error of a failed get holds the key asked for and the
\* rendering of the whole document as it was at that get, its message holds
\* both, and the adds that follow leave the error the caller keeps as it is.
C7_ErrorAtGet ==
    (last.op = "get" /\ ret.kind = "NotFound") =>
        /\ ret.err.key = last.k
        /\ deserialise(ret.err.json) = [ok |-> TRUE, json_data |-> json_data]
        /\ NotFound_fmt(ret.err) =
             <<"NotFound: Cannot found key ">> \o last.k \o <<" in ">>
                \o ret.err.json
        /\ (json_data = inline(<<Pair(<<"a">>, SStr(<<"x">>))>>) /\ last.k = <<"m">>) =>
             NotFound_fmt(ret.err) =
               <<"NotFound: Cannot found key ", "m", " in ",
                 "{", "\"", "a", "\"", ":", "\"", "x", "\"", "}">>

C7_ErrorSnapshot ==
    /\ []C7_ErrorAtGet
    /\ [][held.some => held' = held]_vars

C7_Witness ==
    /\ held.some
    /\ last.op = "add"
    /\ held.err.key = <<"m">>
    /\ deserialise(held.err.json).json_data # json_data
    /\ DOMAIN json_data = Keys

\* C8: a get at type Json of a key that holds a nested document returns a
\* document equal to it; the get on that document of a key it holds returns
\* the value it holds there (2005 for the "a" of Movie), and of a key it
\* does not hold fails with NotFound for that key.
C8_NestedAccess ==
    /\ (last.op = "get" /\ last.ty = "Json" /\ last.k \in DOMAIN json_data) =>
          (json_data[last.k].tag = "Object" =>
              ret.kind = "Ok" /\ to_value(ret.v) = json_data[last.k])
    /\ (last.op = "child_get" /\ child.adds = 0) =>
          LET n == json_data[child.key].o
          IN IF last.k \in DOMAIN n
             THEN /\ ret.kind # "NotFound"
                  /\ Fits(last.ty, n[last.k]) => ret.kind = "Ok"
                  /\ ret.kind = "Ok" => to_value(ret.v) = n[last.k]
                  /\ (n = Movie /\ last.k = <<"a">> /\ last.ty = "u16") =>
                        ret = Ok(SInt("u16", 2005))
             ELSE ret.kind = "NotFound" /\ ret.err.key = last.k

C8_Witness ==
    /\ last.op = "child_get"
    /\ child.adds = 0
    /\ json_data[child.key] = VObject(Movie)
    /\ last.k = <<"a">>
    /\ ret = Ok(SInt("u16", 2005))

\* C9: a get, whatever its outcome, and an add on the document a get
\* returned leave the document as it was, and a later get of the same key
\* returns the nested document as it was first returned.
C9_GetReadOnly ==
    /\ last.op \in {"get", "child_get", "child_add"} => json_data = prev
    /\ (/\ last.op = "get"
        /\ child.some
        /\ child.adds > 0
        /\ last.k = child.key
        /\ last.ty = "Json") => ret = Ok(SJson(child.orig))

C9_Witness ==
    /\ last.op = "get"
    /\ child.some
    /\ child.adds > 0
    /\ child.json_data # child.orig
    /\ last.k = child.key
    /\ last.ty = "Json"
    /\ ret.kind = "Ok"

\* C10: an add of k leaves every other key with its value, removes no key,
\* and makes the key set the former one with k: one entry more when k was
\* not held, none when it was.
C10_AddFrame ==
    last.op = "add" =>
        /\ DOMAIN json_data = DOMAIN prev \cup {last.k}
        /\ \A k \in DOMAIN prev \ {last.k} : json_data[k] = prev[k]
        /\ Cardinality(DOMAIN json_data) =
             Cardinality(DOMAIN prev) + (IF last.k \in DOMAIN prev THEN 0 ELSE 1)

C10_Witness ==
    /\ last.op = "add"
    /\ DOMAIN prev = {<<"b">>}
    /\ last.k = <<"a">>
    /\ json_data[<<"b">>] = prev[<<"b">>]
    /\ Cardinality(DOMAIN json_data) = 2

====
